---- MODULE Spec2Model ----
(***************************************************************************)
(* Model of kml_2_leaflet.py: the batch conversion of KML documents into   *)
(* Leaflet manifests.                                                      *)
(*                                                                         *)
(* Text is a sequence of tokens (strings).  A token is a single character  *)
(* ("a", " ", "!") or a phrase the code tests as a whole: a URL scheme     *)
(* ("http://"), a file extension (".png"), or a height phrase such as      *)
(* "TX30" for the text "TX Height: 30 m".  An optional value (Python's     *)
(* None) is a sequence of length 0 or 1.                                   *)
(***************************************************************************)
EXTENDS Integers, Sequences, FiniteSets, TLC

VARIABLES
    slug_s,            \* slugify: the argument s
    slug_r,            \* slugify(s)
    slug_rr,           \* slugify(slugify(s))
    slug_pc,           \* "idle" | "call" | "ret"
    kml_path,          \* parse_kml: the document at path
    kml_ret,           \* parse_kml(path): the dict returned or the exception
    kml_pc,            \* "idle" | "call" | "ret"
    in_dir,            \* main: the *.kml files of args.input, stem -> document
    skip_downloads,    \* main: args.skip_downloads
    kml_files,         \* main: sorted(in_dir.glob("*.kml"))
    k,                 \* main: position of the for-kml loop in kml_files
    info,              \* main: parse_kml(kml) of the current document
    idx,               \* main: position of the for-ov loop in info["overlays"]
    manifest_overlays, \* main: entries of the current document
    index_manifests,   \* main: manifest paths collected for index.json
    manifests,         \* file system: <site_slug>/manifest.json written, in order
    images,            \* file system: dest path -> content under out_dir
    index_json,        \* file system: index.json, None until written
    attempts,          \* history: one record per asset resolution performed
    pc                 \* main: "start" | "for_kml" | "for_ov" | "done" | "exit2" | "raised"

vars == << slug_s, slug_r, slug_rr, slug_pc, kml_path, kml_ret, kml_pc,
           in_dir, skip_downloads, kml_files, k, info, idx, manifest_overlays,
           index_manifests, manifests, images, index_json, attempts, pc >>

None == << >>
Some(x) == << x >>
IsNone(o) == o = << >>
IsSome(o) == o # << >>
Get(o) == o[1]

(***************************************************************************)
(* Bounds of the model.                                                    *)
(***************************************************************************)
MaxLen == 3          \* length of the strings slugify is applied to
MaxOverlays == 2     \* GroundOverlay blocks of a document (enumeration inputs)
MaxHeightBlocks == 2 \* GroundOverlay blocks of a document (height inputs)
MaxFiles == 2        \* *.kml files in the input directory

(***************************************************************************)
(* Characters.  WordChars stands for [A-Za-z0-9_.-]; " " is whitespace;    *)
(* every other token is outside the class.                                 *)
(***************************************************************************)
WordChars == { "a", "b", "c", "D", "N", "P", "M", "F", "G", "s", "i", "t", "e",
               "0", "_", ".", "-" }
Whitespace == { " " }

site == << "s", "i", "t", "e" >>

----------------------------------------------------------------------------
(* str.strip(): leading and trailing whitespace removed. *)
RECURSIVE LStrip(_)
LStrip(s) ==
    IF s = << >> THEN << >>
    ELSE IF Head(s) \in Whitespace THEN LStrip(Tail(s)) ELSE s

RECURSIVE RStrip(_)
RStrip(s) ==
    IF s = << >> THEN << >>
    ELSE IF s[Len(s)] \in Whitespace THEN RStrip(SubSeq(s, 1, Len(s) - 1)) ELSE s

Strip(s) == RStrip(LStrip(s))

(* re.sub(r"[^A-Za-z0-9_.-]+", "_", s): each maximal run of characters     *)
(* outside the class becomes one underscore.                               *)
RECURSIVE re_sub_runs(_, _)
re_sub_runs(s, inRun) ==
    IF s = << >> THEN << >>
    ELSE IF Head(s) \in WordChars
         THEN << Head(s) >> \o re_sub_runs(Tail(s), FALSE)
         ELSE IF inRun THEN re_sub_runs(Tail(s), TRUE)
              ELSE << "_" >> \o re_sub_runs(Tail(s), TRUE)

(* A slugify that forgets the fallback for an empty result. *)
slugify_nofallback(s) == re_sub_runs(Strip(s), FALSE)

slugify(s) ==
    LET r == re_sub_runs(Strip(s), FALSE)
    IN  IF r = << >> THEN site ELSE r

----------------------------------------------------------------------------
(***************************************************************************)
(* XML documents.                                                          *)
(*   element namespaces: "ns1" = opengis 2.2, "ns2" = earth.google 2.2,    *)
(*   "none" = unprefixed, "other" = any other namespace.                   *)
(*   NameKids: the <name> child (its namespace and text) and the           *)
(*   unprefixed <n> child of an element.                                   *)
(***************************************************************************)
KML_NAMESPACES == << "ns1", "ns2" >>

KnownNs == { KML_NAMESPACES[i] : i \in 1..Len(KML_NAMESPACES) } \cup { "none" }

NoKids == [name |-> None, n |-> None]
NameKid(ns, text) == [name |-> Some([ns |-> ns, text |-> text]), n |-> None]
NKid(text) == [name |-> None, n |-> Some(text)]
BothKids(ns, text, ntext) ==
    [name |-> Some([ns |-> ns, text |-> text]), n |-> Some(ntext)]

(* find_text(elem, "kml:<child>"): the child's text under each candidate   *)
(* namespace, then unprefixed; stripped; "" when nothing is found.         *)
find_text(child) ==
    IF IsSome(child) /\ Get(child).ns \in KnownNs /\ Get(child).text # << >>
    THEN Strip(Get(child).text)
    ELSE << >>

get_element_name(kids) ==
    LET name == find_text(kids.name)
    IN  IF name # << >> THEN Some(name)
        ELSE IF IsSome(kids.n) /\ Get(kids.n) # << >>
             THEN Some(Strip(Get(kids.n)))
             ELSE None

(* find_element(root, ".//kml:X") for an element X occurring at most once. *)
find_element(el) ==
    IF IsSome(el) /\ Get(el).ns \in KnownNs THEN el ELSE None

(* find_all_elements(root, ".//kml:GroundOverlay"): the blocks of the      *)
(* first candidate namespace that has any, else the unprefixed ones, in    *)
(* document order.                                                         *)
InNs(blocks, ns) == SelectSeq(blocks, LAMBDA go : go.ns = ns)

RECURSIVE find_all_from(_, _)
find_all_from(blocks, i) ==
    IF i > Len(KML_NAMESPACES) THEN InNs(blocks, "none")
    ELSE IF InNs(blocks, KML_NAMESPACES[i]) # << >>
         THEN InNs(blocks, KML_NAMESPACES[i])
         ELSE find_all_from(blocks, i + 1)

find_all_elements(blocks) == find_all_from(blocks, 1)

----------------------------------------------------------------------------
(***************************************************************************)
(* Numbers in text.  float(x) succeeds on the numeric tokens and raises    *)
(* ValueError on the others ("x", or a height phrase whose digits-and-dots *)
(* group is "1.2.3").                                                      *)
(***************************************************************************)
FloatTokens == { "-122", "37", "0" }
IsFloat(tok) == tok \in FloatTokens
FloatOf(tok) == CASE tok = "-122" -> -122 [] tok = "37" -> 37 [] OTHER -> 0

(* Height phrases: "TX<n>" is the text "TX Height: <n> m", "H<n>" the text *)
(* "Height: <n> m"; in "TXbad" and "Hbad" the number is "1.2.3".           *)
TXPhrases == { "TX30", "TX40", "TXbad" }
HPhrases == { "H20", "H25", "Hbad" }
PhraseIsFloat(tok) == tok \notin { "TXbad", "Hbad" }
PhraseFloat(tok) ==
    CASE tok = "TX30" -> 30 [] tok = "TX40" -> 40
      [] tok = "H20" -> 20 [] tok = "H25" -> 25 [] OTHER -> 0

(* re.search(pattern, desc): the first match, None when there is none. *)
re_search(desc, phrases) ==
    LET hits == { i \in 1..Len(desc) : desc[i] \in phrases }
    IN  IF hits = {} THEN None
        ELSE Some(desc[CHOOSE i \in hits : \A j \in hits : i <= j])

(* "Height: X m" also matches inside "TX Height: X m". *)
extract_tx_height(desc) ==
    IF desc = << >> THEN None
    ELSE LET m1 == re_search(desc, TXPhrases)
             m2 == re_search(desc, TXPhrases \cup HPhrases)
         IN  IF IsSome(m1) /\ PhraseIsFloat(Get(m1)) THEN Some(PhraseFloat(Get(m1)))
             ELSE IF IsSome(m2) /\ PhraseIsFloat(Get(m2))
                  THEN Some(PhraseFloat(Get(m2)))
                  ELSE None

DefaultHeight == 10

(* The text extract_tx_height is given for one GroundOverlay block: its    *)
(* name, replaced by the text of an unprefixed <description> child.        *)
height_text(go) ==
    LET name == get_element_name(go.kids)
    IN  IF IsSome(go.description) /\ Get(go.description).ns = "none"
           /\ Get(go.description).text # << >>
        THEN Get(go.description).text
        ELSE IF IsSome(name) THEN Get(name) ELSE << >>

(* The loop of parse_kml over ground_overlays: the first height found. *)
RECURSIVE antenna_height_from(_, _)
antenna_height_from(gos, i) ==
    IF i > Len(gos) THEN DefaultHeight
    ELSE LET height == extract_tx_height(height_text(gos[i]))
         IN  IF IsSome(height) THEN Get(height)
             ELSE antenna_height_from(gos, i + 1)

antenna_height(gos) == antenna_height_from(gos, 1)

----------------------------------------------------------------------------
Edges == << "south", "west", "north", "east" >>

(* get_bound(tag): the edge as a float; raises when the edge is missing. *)
HasBound(box, tag) == IsSome(box[tag])
get_bound(box, tag) == Get(box[tag])

MissingEdges(box) == { i \in 1..Len(Edges) : ~HasBound(box, Edges[i]) }
FirstMissingEdge(box) ==
    Edges[CHOOSE i \in MissingEdges(box) : \A j \in MissingEdges(box) : i <= j]

MissingMsg(tag) ==
    CASE tag = "south" -> "Missing <LatLonBox><south>"
      [] tag = "west" -> "Missing <LatLonBox><west>"
      [] tag = "north" -> "Missing <LatLonBox><north>"
      [] OTHER -> "Missing <LatLonBox><east>"

(* The href of a GroundOverlay block: the stripped text of Icon/href. *)
overlay_href(go) ==
    IF IsSome(go.icon) /\ IsSome(Get(go.icon).href) /\ Get(Get(go.icon).href) # << >>
    THEN Some(Strip(Get(Get(go.icon).href)))
    ELSE None

png_filename_of(stem) == stem \o << ".png" >>

overlay_dict(go, site_name, stem) ==
    LET box == Get(go.box)
    IN  [ name |-> site_name,
          href |-> overlay_href(go),
          bounds |-> << << get_bound(box, "south"), get_bound(box, "west") >>,
                        << get_bound(box, "north"), get_bound(box, "east") >> >>,
          rotation |-> box.rotation,
          png_filename |-> png_filename_of(stem) ]

(* A block filter that also requires an Icon child. *)
has_box_and_icon(go) == IsSome(go.box) /\ IsSome(go.icon)

(* "if box is None: continue" *)
has_box(go) == IsSome(go.box)

(* The blocks the overlay loop of parse_kml appends a dict for. *)
kept_overlays(gos) == SelectSeq(gos, has_box)

(* A site name taken from the Placemark when the Document has none. *)
site_name_with_placemark(path) ==
    LET doc == find_element(path.document)
        dn == IF IsSome(doc) THEN get_element_name(Get(doc).kids) ELSE None
        pm == find_element(path.placemark)
        pn == IF IsSome(pm) THEN get_element_name(Get(pm).kids) ELSE None
    IN  IF IsSome(dn) /\ Get(dn) # << >> THEN Get(dn)
        ELSE IF IsSome(pn) /\ Get(pn) # << >> THEN Get(pn)
        ELSE path.stem

(* Lines 193-205: the Document's name, else the file's stem. *)
site_name_of(path) ==
    LET doc == find_element(path.document)
        site_name == IF IsSome(doc) THEN get_element_name(Get(doc).kids) ELSE None
    IN  IF IsSome(site_name) /\ Get(site_name) # << >> THEN Get(site_name)
        ELSE path.stem

Raise(msg) ==
    [ ok |-> FALSE, error |-> msg, site_name |-> << >>, lat |-> 0, lon |-> 0,
      antenna_agl_m |-> 0, folder_name |-> << >>, placemark_name |-> None,
      overlays |-> << >> ]

parse_kml(path) ==
    LET site_name == site_name_of(path)
        placemark == find_element(path.placemark)
        coord == find_text(Get(placemark).coordinates)
        ground_overlays == find_all_elements(path.overlays)
        kept == kept_overlays(ground_overlays)
        broken == { i \in 1..Len(kept) : MissingEdges(Get(kept[i].box)) # {} }
        first_broken == CHOOSE i \in broken : \A j \in broken : i <= j
    IN  IF ~path.wellformed THEN Raise("ParseError")
        ELSE IF IsNone(placemark) THEN Raise("No <Placemark> found")
        ELSE IF coord = << >>
             THEN Raise("No <Point><coordinates> found for site lat/lon")
        ELSE IF Len(coord) < 2 \/ ~IsFloat(coord[1]) \/ ~IsFloat(coord[2])
             THEN Raise("ValueError")
        ELSE IF broken # {}
             THEN Raise(MissingMsg(FirstMissingEdge(Get(kept[first_broken].box))))
        ELSE [ ok |-> TRUE, error |-> "",
               site_name |-> site_name,
               lat |-> FloatOf(coord[2]),
               lon |-> FloatOf(coord[1]),
               antenna_agl_m |-> antenna_height(ground_overlays),
               folder_name |-> site_name,
               placemark_name |-> get_element_name(Get(placemark).kids),
               overlays |-> [ i \in 1..Len(kept) |->
                                overlay_dict(kept[i], site_name, path.stem) ] ]

----------------------------------------------------------------------------
(***************************************************************************)
(* Inputs.                                                                 *)
(***************************************************************************)
SlugChars == { "a", "_", ".", " ", "!" }

Coordinates(fields) == Some([ns |-> "ns1", text |-> fields])
GoodCoordinates == Coordinates(<< "-122", "37", "0" >>)

Placemark(kids, coordinates) ==
    Some([ns |-> "ns1", kids |-> kids, coordinates |-> coordinates])

Box(s, w, n, e, rot) ==
    Some([south |-> s, west |-> w, north |-> n, east |-> e, rotation |-> rot])
BoxA == Box(Some(1), Some(2), Some(3), Some(4), None)
BoxB == Box(Some(5), Some(6), Some(7), Some(8), Some(90))
BoxNoNorth == Box(Some(1), Some(2), None, Some(4), None)

Icon(href) == Some([href |-> href])
UrlU == << "http://", "a", ".png" >>
LocalRef == << "c", ".png" >>

Document(ns, kids) == Some([ns |-> ns, kids |-> kids])

Kml(stem, wellformed, document, metaName, folder, placemark, overlays) ==
    [ stem |-> stem, wellformed |-> wellformed, document |-> document,
      metaName |-> metaName, folder |-> folder, placemark |-> placemark,
      overlays |-> overlays ]

GroundOverlay(ns, kids, description, box, icon) ==
    [ ns |-> ns, kids |-> kids, description |-> description, box |-> box,
      icon |-> icon ]

Description(ns, text) == Some([ns |-> ns, text |-> text])

(* Documents that differ in what could name the site. *)
DocumentKids ==
    { NoKids, NameKid("ns1", << "D" >>), NameKid("other", << "D" >>),
      NameKid("none", << " " >>), NKid(<< "N" >>), NKid(<< " " >>),
      BothKids("ns2", << "D", " " >>, << "N" >>),
      BothKids("ns1", << " " >>, << " ", "N" >>) }

NamePlacemarks ==
    { None } \cup { Placemark(kids, c) :
                     kids \in { NoKids, NameKid("ns1", << "P" >>) },
                     c \in { None, GoodCoordinates, Coordinates(<< "37" >>),
                             Coordinates(<< "x", "37" >>) } }

NameDocuments ==
    { None } \cup { Document(ns, kids) :
                     ns \in { "ns1", "none", "other" }, kids \in DocumentKids }

(* Documents that differ in their GroundOverlay blocks. *)
EnumBlocks ==
    { GroundOverlay(ns, NoKids, None, box, icon) :
        ns \in KnownNs,
        box \in { None, BoxA, BoxB, BoxNoNorth },
        icon \in { None, Icon(None), Icon(Some(UrlU)),
                   Icon(Some(<< " ", "c", ".png" >>)) } }

OverlayInput(gos) ==
    Kml(<< "a" >>, TRUE, Document("ns1", NameKid("ns1", << "D" >>)), None, None,
        Placemark(NoKids, GoodCoordinates), gos)

(* Documents that differ in the height text of their blocks. *)
HeightKids ==
    { NoKids, NameKid("ns1", << "G" >>), NameKid("ns1", << "TX30" >>),
      NameKid("ns1", << "H20", "TX30" >>), NameKid("ns1", << "TXbad", "H20" >>) }

HeightDescriptions ==
    { None } \cup { Description(ns, text) :
                     ns \in { "ns1", "none" },
                     text \in { << "G" >>, << "TX40" >>, << "G", "H25" >> } }

HeightBlocks ==
    { GroundOverlay("ns1", kids, d, BoxA, None) :
        kids \in HeightKids, d \in HeightDescriptions }

NoKml == Kml(<< >>, FALSE, None, None, None, None, << >>)

----------------------------------------------------------------------------
(***************************************************************************)
(* slugify and parse_kml as calls.                                         *)
(***************************************************************************)
MainIdle ==
    /\ in_dir = << >> /\ skip_downloads = FALSE /\ kml_files = << >> /\ k = 0
    /\ info = Raise("") /\ idx = 0 /\ manifest_overlays = << >>
    /\ index_manifests = << >> /\ manifests = << >> /\ images = << >>
    /\ index_json = None /\ attempts = << >> /\ pc = "idle"

SlugIdle == slug_s = << >> /\ slug_r = << >> /\ slug_rr = << >> /\ slug_pc = "idle"

KmlIdle == kml_path = NoKml /\ kml_ret = Raise("") /\ kml_pc = "idle"

mainVars == << in_dir, skip_downloads, kml_files, k, info, idx, manifest_overlays,
               index_manifests, manifests, images, index_json, attempts, pc >>
slugVars == << slug_s, slug_r, slug_rr, slug_pc >>
kmlVars == << kml_path, kml_ret, kml_pc >>

InitSlug ==
    /\ \E n \in 0..MaxLen : slug_s \in [1..n -> SlugChars]
    /\ slug_r = << >> /\ slug_rr = << >> /\ slug_pc = "call"
    /\ KmlIdle /\ MainIdle

(* r = slugify(s); rr = slugify(r) *)
Slugify ==
    /\ slug_pc = "call"
    /\ slug_r' = slugify(slug_s)
    /\ slug_rr' = slugify(slugify(slug_s))
    /\ slug_pc' = "ret"
    /\ UNCHANGED << slug_s, kmlVars, mainVars >>

NextSlug == Slugify

SpecSlug == InitSlug /\ [][NextSlug]_vars

InitParse ==
    /\ \/ \E wf \in BOOLEAN, d \in NameDocuments, m \in { None, Some(<< "M" >>) },
              f \in { None, Some(<< "F" >>) }, p \in NamePlacemarks :
              kml_path = Kml(<< "a" >>, wf, d, m, f, p, << >>)
       \/ \E n \in 0..MaxOverlays : \E gos \in [1..n -> EnumBlocks] :
              kml_path = OverlayInput(gos)
       \/ \E n \in 0..MaxHeightBlocks : \E gos \in [1..n -> HeightBlocks] :
              kml_path = OverlayInput(gos)
    /\ kml_ret = Raise("") /\ kml_pc = "call"
    /\ SlugIdle /\ MainIdle

(* info = parse_kml(path) *)
ParseKml ==
    /\ kml_pc = "call"
    /\ kml_ret' = parse_kml(kml_path)
    /\ kml_pc' = "ret"
    /\ UNCHANGED << kml_path, slugVars, mainVars >>

NextParse == ParseKml

SpecParse == InitParse /\ [][NextParse]_vars

----------------------------------------------------------------------------
(***************************************************************************)
(* download(url, dest, timeout_s).  What the network and the file system   *)
(* do is the environment's choice env:                                     *)
(*   mkdir  "ok" | "OSError"             dest.parent.mkdir                  *)
(*   get    "response" | "Timeout" | "RequestException"   requests.get      *)
(*   status the response's status code                                     *)
(*   open   "ok" | "OSError"             open(dest, "wb")                   *)
(*   stream "ok" | "RequestException" | "OSError", raised after `after`    *)
(*          chunks of the body have been written                           *)
(* The result: raised (an exception left download), res (DownloadResult),  *)
(* file (what the call left at dest, None when it did not touch it).       *)
(***************************************************************************)
ResponseBody == << "x", "y" >>

StatusCodes == { 200, 301, 404, 500 }

Env(mkdir, get, status, open, stream, after) ==
    [ mkdir |-> mkdir, get |-> get, status |-> status, open |-> open,
      stream |-> stream, after |-> after ]

(* One environment for each way a download can go. *)
DownloadEnv ==
    { Env("OSError", "response", 200, "ok", "ok", 0) }
    \cup { Env("ok", get, 200, "ok", "ok", 0) : get \in { "Timeout", "RequestException" } }
    \cup { Env("ok", "response", status, "ok", "ok", 0) : status \in StatusCodes }
    \cup { Env("ok", "response", 200, "OSError", "ok", 0) }
    \cup { Env("ok", "response", 200, "ok", stream, after) :
             stream \in { "RequestException", "OSError" },
             after \in 0..(Len(ResponseBody) - 1) }

DownloadResult(ok, http_status, error) ==
    [ ok |-> ok, http_status |-> http_status, error |-> error ]

HttpMsg(status) ==
    CASE status = 301 -> "HTTP 301" [] status = 500 -> "HTTP 500" [] OTHER -> "HTTP"

Returned(res, file) == [ raised |-> FALSE, res |-> res, file |-> file ]
NoResult == DownloadResult(FALSE, None, None)

download(url, env) ==
    IF env.mkdir = "OSError"
    THEN [ raised |-> TRUE, res |-> NoResult, file |-> None ]
    ELSE IF env.get = "Timeout"
    THEN Returned(DownloadResult(FALSE, None, Some("Timeout after 120s")), None)
    ELSE IF env.get = "RequestException"
    THEN Returned(DownloadResult(FALSE, None, Some("ConnectionError")), None)
    ELSE IF env.status = 404
    THEN Returned(DownloadResult(FALSE, Some(404), Some("404 Not Found")), None)
    ELSE IF env.status < 200 \/ env.status >= 300
    THEN Returned(DownloadResult(FALSE, Some(env.status), Some(HttpMsg(env.status))), None)
    ELSE IF env.open = "OSError"
    THEN Returned(DownloadResult(FALSE, None, Some("Filesystem error")), None)
    ELSE IF env.stream = "RequestException"
    THEN Returned(DownloadResult(FALSE, None, Some("ConnectionError")),
                  Some(SubSeq(ResponseBody, 1, env.after)))
    ELSE IF env.stream = "OSError"
    THEN Returned(DownloadResult(FALSE, None, Some("Filesystem error")),
                  Some(SubSeq(ResponseBody, 1, env.after)))
    ELSE Returned(DownloadResult(TRUE, Some(env.status), None), Some(ResponseBody))

----------------------------------------------------------------------------
(***************************************************************************)
(* main.                                                                   *)
(***************************************************************************)
POTENTIAL_BASE == "potential"

SkipMsg == "Downloads skipped by --skip-downloads"
NotFoundMsg == "Local file not found"

(* sorted(in_dir.glob("*.kml")): the files in the order of their names. *)
CharOrd(c) == CASE c = "a" -> 1 [] c = "b" -> 2 [] c = "c" -> 3 [] OTHER -> 4

RECURSIVE LexLess(_, _)
LexLess(s, t) ==
    IF t = << >> THEN FALSE
    ELSE IF s = << >> THEN TRUE
    ELSE IF CharOrd(Head(s)) # CharOrd(Head(t)) THEN CharOrd(Head(s)) < CharOrd(Head(t))
    ELSE LexLess(Tail(s), Tail(t))

RECURSIVE sorted(_)
sorted(files) ==
    IF files = {} THEN << >>
    ELSE LET first == CHOOSE f \in files : \A g \in files \ { f } : LexLess(f.stem, g.stem)
         IN  << first >> \o sorted(files \ { first })

kml_name(kml) == kml.stem \o << ".kml" >>

(* f"/{POTENTIAL_BASE}/{site_name}/overlays/{png_filename}" *)
image_rel_of(site_name, png_filename) ==
    << "/", POTENTIAL_BASE, "/" >> \o site_name \o << "/", "overlays", "/" >> \o png_filename

(* overlays_dir / png_filename, relative to out_dir *)
dest_of(site_name, png_filename) ==
    slugify(site_name) \o << "/", "overlays", "/" >> \o png_filename

(* site_dir / "manifest.json", relative to out_dir *)
manifest_path_of(site_name) == slugify(site_name) \o << "/", "manifest.json" >>

(* f"{POTENTIAL_BASE}/{site_name}/manifest.json" *)
index_entry_of(site_name) ==
    << POTENTIAL_BASE, "/" >> \o site_name \o << "/", "manifest.json" >>

(* "not href": None or the empty string *)
no_href(href) == IF IsNone(href) THEN TRUE ELSE Get(href) = << >>

(* href.startswith("http://") or href.startswith("https://") *)
is_url(href) == href # << >> /\ href[1] \in { "http://", "https://" }

new_entry(site_name, ov) ==
    [ name |-> site_name, source_url |-> ov.href, bounds |-> ov.bounds,
      rotation |-> ov.rotation, image |-> None, download_ok |-> FALSE,
      http_status |-> None, error |-> None ]

(* A local branch that leaves image null when the file is not found. *)
local_entry_noimage(entry, exists, image_rel) ==
    IF exists
    THEN [ entry EXCEPT !.image = Some(image_rel), !.download_ok = TRUE, !.error = None ]
    ELSE [ entry EXCEPT !.download_ok = FALSE, !.error = Some(NotFoundMsg) ]

(* Lines 394-404 and 437-447: the entry after the local-file branch. *)
local_entry(entry, exists, image_rel) ==
    IF exists
    THEN [ entry EXCEPT !.image = Some(image_rel), !.download_ok = TRUE, !.error = None ]
    ELSE [ entry EXCEPT !.image = Some(image_rel), !.download_ok = FALSE,
                        !.error = Some(NotFoundMsg) ]

(* A skip branch that forgets the path. *)
skipped_entry_noimage(entry, image_rel) ==
    [ entry EXCEPT !.download_ok = FALSE, !.error = Some(SkipMsg) ]

(* Lines 412-417: the entry when downloads are skipped. *)
skipped_entry(entry, image_rel) ==
    [ entry EXCEPT !.image = Some(image_rel), !.download_ok = FALSE,
                   !.error = Some(SkipMsg) ]

(* Lines 421-429: the entry after download returned res. *)
remote_entry(entry, res, image_rel) ==
    [ entry EXCEPT !.http_status = res.http_status, !.download_ok = res.ok,
                   !.error = res.error,
                   !.image = IF res.ok THEN Some(image_rel) ELSE None ]

SourcePng == << "p", "n", "g" >>

Attempt(branch, entry, wrote, raised) ==
    [ k |-> k, idx |-> idx, href |-> info.overlays[idx].href, branch |-> branch,
      entry |-> entry, wrote |-> wrote, raised |-> raised ]

WriteFile(fs, path, content) ==
    [ p \in DOMAIN fs \cup { path } |-> IF p = path THEN content ELSE fs[p] ]

(* The *.kml files a directory may hold, by name. *)
Stems == << << "a" >>, << "b" >>, << "c" >>, << "a", "b" >> >>

KmlFilesNamed(stem) ==
    { Kml(stem, FALSE, None, None, None, None, << >>),
      Kml(stem, TRUE, Document("ns1", NameKid("ns1", << "D" >>)), None, None, None,
          << GroundOverlay("ns1", NoKids, None, BoxA, Icon(Some(UrlU))) >>),
      Kml(stem, TRUE, Document("ns1", NoKids), None, None,
          Placemark(NameKid("ns1", << "P" >>), None), << >>),
      Kml(stem, TRUE, Document("ns1", NameKid("ns1", << "D" >>)), None, None,
          Placemark(NoKids, GoodCoordinates),
          << GroundOverlay("ns1", NoKids, None, BoxNoNorth, Icon(Some(UrlU))) >>),
      Kml(stem, TRUE, Document("ns1", NameKid("ns1", << "D", "!" >>)), None, None,
          Placemark(NoKids, GoodCoordinates),
          << GroundOverlay("ns1", NoKids, None, BoxA, Icon(Some(UrlU))),
             GroundOverlay("ns1", NoKids, None, BoxB, Icon(Some(LocalRef))) >>),
      Kml(stem, TRUE, None, None, None,
          Placemark(NoKids, GoodCoordinates),
          << GroundOverlay("none", NoKids, None, BoxA, None) >>) }

Directories ==
    { files \in SUBSET (UNION { KmlFilesNamed(Stems[i]) : i \in 1..MaxFiles }) :
        \A f \in files, g \in files : f.stem = g.stem => f = g }

Init ==
    /\ in_dir \in Directories
    /\ skip_downloads \in BOOLEAN
    /\ kml_files = << >> /\ k = 0 /\ info = Raise("") /\ idx = 0
    /\ manifest_overlays = << >> /\ index_manifests = << >>
    /\ manifests = << >> /\ images = << >> /\ index_json = None
    /\ attempts = << >> /\ pc = "start"
    /\ SlugIdle /\ KmlIdle

loopVars == << in_dir, skip_downloads, kml_files >>

(* Lines 340-343: no *.kml file, return 2. *)
NoInput ==
    /\ pc = "start"
    /\ sorted(in_dir) = << >>
    /\ pc' = "exit2"
    /\ UNCHANGED << in_dir, skip_downloads, kml_files, k, info, idx, manifest_overlays,
                    index_manifests, manifests, images, index_json, attempts,
                    slugVars, kmlVars >>

(* Lines 340-348: the sorted file list, the empty index. *)
Start ==
    /\ pc = "start"
    /\ sorted(in_dir) # << >>
    /\ kml_files' = sorted(in_dir)
    /\ index_manifests' = << >>
    /\ k' = 1
    /\ pc' = "for_kml"
    /\ UNCHANGED << in_dir, skip_downloads, info, idx, manifest_overlays, manifests,
                    images, index_json, attempts, slugVars, kmlVars >>

(* Lines 350-357: parse_kml raises, the document is skipped. *)
ParseFails ==
    /\ pc = "for_kml"
    /\ k <= Len(kml_files)
    /\ ~parse_kml(kml_files[k]).ok
    /\ k' = k + 1
    /\ UNCHANGED << loopVars, info, idx, manifest_overlays, index_manifests, manifests,
                    images, index_json, attempts, pc, slugVars, kmlVars >>

(* Lines 350-366: parse_kml returns, the overlay loop starts.  Creating    *)
(* site_dir, like writing manifest.json and index.json, is taken to        *)
(* succeed.                                                                *)
ParseOk ==
    /\ pc = "for_kml"
    /\ k <= Len(kml_files)
    /\ parse_kml(kml_files[k]).ok
    /\ info' = parse_kml(kml_files[k])
    /\ manifest_overlays' = << >>
    /\ idx' = 1
    /\ pc' = "for_ov"
    /\ UNCHANGED << loopVars, k, index_manifests, manifests, images, index_json,
                    attempts, slugVars, kmlVars >>

InOverlayLoop == pc = "for_ov" /\ idx <= Len(info.overlays)

ov == info.overlays[idx]
entry0 == new_entry(info.site_name, ov)
image_rel == image_rel_of(info.site_name, ov.png_filename)
dest == dest_of(info.site_name, ov.png_filename)

(* The local-file branch: overlays_dir.mkdir, source_png.exists(),         *)
(* shutil.copy2.  mkdir and copy2 may raise OSError, which nothing catches.*)
LocalFile(branch, mkdir, exists, copy) ==
    IF mkdir = "OSError" \/ (exists /\ copy = "OSError")
    THEN /\ pc' = "raised"
         /\ attempts' = Append(attempts, Attempt(branch, None, None, TRUE))
         /\ UNCHANGED << idx, manifest_overlays, images >>
    ELSE /\ manifest_overlays' =
                Append(manifest_overlays, local_entry(entry0, exists, image_rel))
         /\ images' = IF exists THEN WriteFile(images, dest, SourcePng) ELSE images
         /\ attempts' = Append(attempts,
                Attempt(branch, Some(local_entry(entry0, exists, image_rel)),
                        IF exists THEN Some(SourcePng) ELSE None, FALSE))
         /\ idx' = idx + 1
         /\ pc' = pc

(* Lines 387-406: no href. *)
OverlayNoHref ==
    /\ InOverlayLoop
    /\ no_href(ov.href)
    /\ \E mkdir \in { "ok", "OSError" }, exists \in BOOLEAN, copy \in { "ok", "OSError" } :
          LocalFile("nohref", mkdir, exists, copy)
    /\ UNCHANGED << loopVars, k, info, index_manifests, manifests, index_json,
                    slugVars, kmlVars >>

(* Lines 409-417: a URL, downloads skipped. *)
OverlaySkipped ==
    /\ InOverlayLoop
    /\ ~no_href(ov.href) /\ is_url(Get(ov.href))
    /\ skip_downloads
    /\ manifest_overlays' = Append(manifest_overlays, skipped_entry(entry0, image_rel))
    /\ attempts' = Append(attempts,
            Attempt("skipped", Some(skipped_entry(entry0, image_rel)), None, FALSE))
    /\ idx' = idx + 1
    /\ UNCHANGED << loopVars, k, info, index_manifests, manifests, images, index_json,
                    pc, slugVars, kmlVars >>

(* Lines 409-429, 449: a URL, downloaded. *)
OverlayRemote ==
    /\ InOverlayLoop
    /\ ~no_href(ov.href) /\ is_url(Get(ov.href))
    /\ ~skip_downloads
    /\ \E env \in DownloadEnv :
          LET d == download(Get(ov.href), env)
          IN  IF d.raised
              THEN /\ pc' = "raised"
                   /\ attempts' = Append(attempts, Attempt("remote", None, None, TRUE))
                   /\ UNCHANGED << idx, manifest_overlays, images >>
              ELSE /\ manifest_overlays' =
                          Append(manifest_overlays, remote_entry(entry0, d.res, image_rel))
                   /\ images' = IF IsSome(d.file)
                                THEN WriteFile(images, dest, Get(d.file)) ELSE images
                   /\ attempts' = Append(attempts,
                          Attempt("remote", Some(remote_entry(entry0, d.res, image_rel)),
                                  d.file, FALSE))
                   /\ idx' = idx + 1
                   /\ pc' = pc
    /\ UNCHANGED << loopVars, k, info, index_manifests, manifests, index_json,
                    slugVars, kmlVars >>

(* Lines 430-449: a local file reference. *)
OverlayLocalRef ==
    /\ InOverlayLoop
    /\ ~no_href(ov.href) /\ ~is_url(Get(ov.href))
    /\ \E mkdir \in { "ok", "OSError" }, exists \in BOOLEAN, copy \in { "ok", "OSError" } :
          LocalFile("localref", mkdir, exists, copy)
    /\ UNCHANGED << loopVars, k, info, index_manifests, manifests, index_json,
                    slugVars, kmlVars >>

manifest_of(kml) ==
    [ site |-> [ name |-> info.site_name, lat |-> info.lat, lon |-> info.lon,
                 antenna_agl_m |-> info.antenna_agl_m, antenna_agl_note |-> << >>,
                 folder_name |-> info.folder_name,
                 placemark_name |-> info.placemark_name,
                 source_kml |-> kml_name(kml) ],
      overlays |-> manifest_overlays ]

(* Lines 451-469: the manifest is written and listed. *)
WriteManifest ==
    /\ pc = "for_ov"
    /\ idx > Len(info.overlays)
    /\ manifests' = Append(manifests,
            [ path |-> manifest_path_of(info.site_name),
              manifest |-> manifest_of(kml_files[k]) ])
    /\ index_manifests' = Append(index_manifests, index_entry_of(info.site_name))
    /\ k' = k + 1
    /\ pc' = "for_kml"
    /\ UNCHANGED << loopVars, info, idx, manifest_overlays, images, index_json,
                    attempts, slugVars, kmlVars >>

(* Lines 471-478: index.json is written, return 0. *)
WriteIndex ==
    /\ pc = "for_kml"
    /\ k > Len(kml_files)
    /\ index_json' = Some(index_manifests)
    /\ pc' = "done"
    /\ UNCHANGED << loopVars, k, info, idx, manifest_overlays, index_manifests,
                    manifests, images, attempts, slugVars, kmlVars >>

Next ==
    \/ NoInput
    \/ Start
    \/ ParseFails
    \/ ParseOk
    \/ OverlayNoHref
    \/ OverlaySkipped
    \/ OverlayRemote
    \/ OverlayLocalRef
    \/ WriteManifest
    \/ WriteIndex

Spec == Init /\ [][Next]_vars

----------------------------------------------------------------------------
(***************************************************************************)
(* Properties of slugify (SpecSlug).                                       *)
(***************************************************************************)
Range(f) == { f[i] : i \in DOMAIN f }

(* s without its leading and trailing whitespace, by positions. *)
Trimmed(s) ==
    LET solid == { i \in 1..Len(s) : s[i] \notin Whitespace }
    IN  IF solid = {} THEN << >>
        ELSE SubSeq(s, CHOOSE i \in solid : \A j \in solid : i <= j,
                       CHOOSE i \in solid : \A j \in solid : i >= j)

(* s with every maximal run of characters outside the class replaced by    *)
(* one underscore, by positions: a position is kept when it holds a class  *)
(* character or starts a run.                                              *)
RunStarts(s) ==
    { i \in 1..Len(s) : s[i] \in WordChars \/ i = 1 \/ s[i - 1] \in WordChars }
NthStart(s, n) ==
    CHOOSE i \in RunStarts(s) : Cardinality({ j \in RunStarts(s) : j <= i }) = n
RunsReplaced(s) ==
    [ n \in 1..Cardinality(RunStarts(s)) |->
        IF s[NthStart(s, n)] \in WordChars THEN s[NthStart(s, n)] ELSE "_" ]

OrSite(r) == IF r = << >> THEN site ELSE r

SlugShape ==
    /\ slug_rr = slug_r
    /\ slug_r # << >>
    /\ Range(slug_r) \subseteq WordChars

(* C10 as stated: slugify(slugify(x)) = slugify(x); the result is never    *)
(* empty and holds only characters of [A-Za-z0-9_.-]; it is x with every   *)
(* run of other characters replaced by one underscore, or "site" when that *)
(* is empty.                                                               *)
C10_AsStated ==
    slug_pc = "ret" => SlugShape /\ slug_r = OrSite(RunsReplaced(slug_s))

(* C10 amended: slugify(slugify(x)) = slugify(x); the result is never      *)
(* empty and holds only characters of [A-Za-z0-9_.-]; it is x, with its    *)
(* leading and trailing whitespace removed first, with every run of other  *)
(* characters replaced by one underscore, or "site" when that is empty.    *)
C10_SlugIdempotentTrimmed ==
    slug_pc = "ret" => SlugShape /\ slug_r = OrSite(RunsReplaced(Trimmed(slug_s)))

C10_Witness ==
    /\ slug_pc = "ret"
    /\ Len(slug_s) = 3
    /\ slug_s[1] \in Whitespace
    /\ slug_s[2] \notin WordChars \cup Whitespace
    /\ slug_s[3] \in WordChars
    /\ slug_r = << "_", slug_s[3] >>

----------------------------------------------------------------------------
(***************************************************************************)
(* Properties of parse_kml (SpecParse).                                    *)
(***************************************************************************)
Parsed == kml_pc = "ret" /\ kml_ret.ok

(* The name an element declares, by cases on its children: a <name> child  *)
(* under a candidate namespace or unprefixed, else an unprefixed <n>.      *)
DeclaredName(el) ==
    IF IsNone(el) \/ Get(el).ns \notin { "ns1", "ns2", "none" } THEN << >>
    ELSE LET kids == Get(el).kids
             viaName == IF IsSome(kids.name) /\ Get(kids.name).ns \in { "ns1", "ns2", "none" }
                        THEN Trimmed(Get(kids.name).text) ELSE << >>
             viaN == IF IsSome(kids.n) THEN Trimmed(Get(kids.n)) ELSE << >>
         IN  IF viaName # << >> THEN viaName ELSE viaN

(* C7 as stated: the site name is the embedded metadata name, else the     *)
(* Document's declared name, else the Placemark's name, else the Folder's  *)
(* name, else the file's base name.                                        *)
C7_AsStated ==
    Parsed =>
        kml_ret.site_name =
            IF IsSome(kml_path.metaName) THEN Get(kml_path.metaName)
            ELSE IF DeclaredName(kml_path.document) # << >>
                 THEN DeclaredName(kml_path.document)
            ELSE IF DeclaredName(kml_path.placemark) # << >>
                 THEN DeclaredName(kml_path.placemark)
            ELSE IF IsSome(kml_path.folder) THEN Get(kml_path.folder)
            ELSE kml_path.stem

(* C7 amended: the site name is the Document's declared name (<name> tag,  *)
(* then legacy <n> tag) when that is non-empty, else the source file's     *)
(* base name without extension; an embedded metadata name, the Placemark's *)
(* name and the Folder's name never name the site.                         *)
C7_DocumentNameElseStem ==
    Parsed =>
        kml_ret.site_name =
            IF DeclaredName(kml_path.document) # << >>
            THEN DeclaredName(kml_path.document)
            ELSE kml_path.stem

C7_Witness ==
    /\ Parsed
    /\ IsSome(kml_path.metaName)
    /\ IsSome(kml_path.folder)
    /\ DeclaredName(kml_path.placemark) = << "P" >>
    /\ DeclaredName(kml_path.document) = << >>
    /\ kml_ret.site_name = kml_path.stem
    /\ kml_ret.placemark_name = Some(<< "P" >>)

(* The descriptor parse_kml owes a block: the trimmed text of Icon/href     *)
(* (null without one), the four edges as [[s, w], [n, e]], the rotation.   *)
BlockHref(go) ==
    IF IsNone(go.icon) THEN None
    ELSE IF IsNone(Get(go.icon).href) \/ Get(Get(go.icon).href) = << >> THEN None
    ELSE Some(Trimmed(Get(Get(go.icon).href)))

Describes(d, go) ==
    /\ d.href = BlockHref(go)
    /\ d.bounds = << << Get(Get(go.box).south), Get(Get(go.box).west) >>,
                     << Get(Get(go.box).north), Get(Get(go.box).east) >> >>
    /\ d.rotation = Get(go.box).rotation
    /\ d.name = kml_ret.site_name

OneDescriptorEach(blocks) ==
    /\ Len(kml_ret.overlays) = Len(blocks)
    /\ \A i \in 1..Len(blocks) : Describes(kml_ret.overlays[i], blocks[i])

(* The blocks the namespace lookup returns: those of the first candidate   *)
(* namespace that has any block, else the unprefixed ones.                 *)
LookedUp(path) ==
    LET has(ns) == \E i \in 1..Len(path.overlays) : path.overlays[i].ns = ns
        chosen == IF has("ns1") THEN "ns1" ELSE IF has("ns2") THEN "ns2" ELSE "none"
    IN  SelectSeq(path.overlays, LAMBDA go : go.ns = chosen)

(* C8 as stated: a parsed document's overlay list holds exactly one        *)
(* descriptor for each GroundOverlay block that has both an Icon and a     *)
(* LatLonBox, in document order; a block lacking either contributes none.  *)
C8_AsStated ==
    Parsed =>
        OneDescriptorEach(SelectSeq(kml_path.overlays,
                                    LAMBDA go : IsSome(go.icon) /\ IsSome(go.box)))

(* C8 amended: a parsed document's overlay list holds exactly one          *)
(* descriptor for each GroundOverlay block returned by the namespace       *)
(* lookup that has a LatLonBox, in document order, whether or not the      *)
(* block has an Icon (its href is then null); a block lacking a LatLonBox  *)
(* contributes no descriptor and raises no error.                          *)
C8_OneDescriptorPerBoxedBlock ==
    Parsed =>
        OneDescriptorEach(SelectSeq(LookedUp(kml_path),
                                    LAMBDA go : IsSome(go.box)))

C8_Witness ==
    /\ Parsed
    /\ Len(kml_path.overlays) = 2
    /\ kml_path.overlays[1].ns = kml_path.overlays[2].ns
    /\ IsNone(kml_path.overlays[1].box) /\ IsSome(kml_path.overlays[1].icon)
    /\ IsSome(kml_path.overlays[2].box) /\ IsNone(kml_path.overlays[2].icon)
    /\ Len(kml_ret.overlays) = 1
    /\ kml_ret.overlays[1].href = None

(* The height a text states: the number of its first "TX Height: <number>  *)
(* m", else of its first "Height: <number> m".                             *)
StatesHeight(text) ==
    \E i \in 1..Len(text) : text[i] \in TXPhrases \cup HPhrases /\ PhraseIsFloat(text[i])

FirstOf(text, phrases) ==
    LET hits == { i \in 1..Len(text) : text[i] \in phrases /\ PhraseIsFloat(text[i]) }
    IN  PhraseFloat(text[CHOOSE i \in hits : \A j \in hits : i <= j])

StatedHeight(text) ==
    IF \E i \in 1..Len(text) : text[i] \in TXPhrases /\ PhraseIsFloat(text[i])
    THEN FirstOf(text, TXPhrases)
    ELSE FirstOf(text, HPhrases)

BlockTexts(go) ==
    (IF IsSome(go.kids.name) THEN { Get(go.kids.name).text } ELSE {})
    \cup (IF IsSome(go.description) THEN { Get(go.description).text } ELSE {})

(* C9 as stated: the antenna height is the number stated by the first      *)
(* GroundOverlay block, in document order, whose name or description       *)
(* states a height; it is 10.0 when no block's name or description does.   *)
C9_AsStated ==
    Parsed =>
        LET blocks == kml_path.overlays
            stating == { i \in 1..Len(blocks) :
                           \E t \in BlockTexts(blocks[i]) : StatesHeight(t) }
            first == CHOOSE i \in stating : \A j \in stating : i <= j
        IN  IF stating = {} THEN kml_ret.antenna_agl_m = DefaultHeight
            ELSE kml_ret.antenna_agl_m \in
                   { StatedHeight(t) : t \in { u \in BlockTexts(blocks[first]) :
                                                 StatesHeight(u) } }

----------------------------------------------------------------------------
(***************************************************************************)
(* Properties of main (Spec).                                              *)
(***************************************************************************)
Finished == pc \in { "done", "raised" }

Attempts == { attempts[i] : i \in DOMAIN attempts }

(* The entries of the manifests written, each with its manifest's site. *)
ManifestEntries ==
    UNION { { [ site |-> manifests[j].manifest.site,
                entry |-> manifests[j].manifest.overlays[i] ] :
                i \in DOMAIN manifests[j].manifest.overlays } :
            j \in DOMAIN manifests }

(* /<base>/<site-name>/overlays/<filename>, the filename being the source  *)
(* document's name with .png for .kml.                                     *)
StatedPath(s) ==
    << "/", "potential", "/" >> \o s.name \o << "/", "overlays", "/" >>
        \o SubSeq(s.source_kml, 1, Len(s.source_kml) - 1) \o << ".png" >>

IsUrl(href) ==
    IF IsNone(href) THEN FALSE
    ELSE IF Get(href) = << >> THEN FALSE
    ELSE Get(href)[1] \in { "http://", "https://" }

HasManifest(kml) ==
    \E j \in DOMAIN manifests : manifests[j].manifest.site.source_kml = kml.stem \o << ".kml" >>

(* C1 as stated: when main has ended, a document whose parse failed has no *)
(* manifest and no index entry, every other document of the batch has its  *)
(* manifest written and exactly one index entry, in processing order.      *)
C1_AsStated ==
    Finished =>
        LET parsedDocs == SelectSeq(kml_files, LAMBDA f : parse_kml(f).ok)
        IN  /\ \A i \in DOMAIN kml_files :
                  ~parse_kml(kml_files[i]).ok => ~HasManifest(kml_files[i])
            /\ Len(manifests) = Len(parsedDocs)
            /\ \A j \in DOMAIN parsedDocs :
                  manifests[j].manifest.site.source_kml = parsedDocs[j].stem \o << ".kml" >>
            /\ index_json =
                  Some([ j \in DOMAIN parsedDocs |->
                           << "potential", "/" >> \o parse_kml(parsedDocs[j]).site_name
                               \o << "/", "manifest.json" >> ])

(* C2 as stated: no asset resolution aborts the batch; each one that fails *)
(* yields an entry with download_ok = false and a non-null error.          *)
C2_AsStated ==
    /\ pc # "raised"
    /\ \A a \in Attempts :
          /\ ~a.raised
          /\ IsSome(a.entry)
          /\ ~Get(a.entry).download_ok => IsSome(Get(a.entry).error)

(* C3 as stated: in skip-downloads mode every overlay entry has            *)
(* download_ok = false, http_status = null, the skip message as error and  *)
(* the computed path as image, and no image file is written, whatever the  *)
(* overlay's image reference is.                                           *)
C3_AsStated ==
    skip_downloads =>
        /\ \A me \in ManifestEntries :
              /\ me.entry.download_ok = FALSE
              /\ me.entry.http_status = None
              /\ me.entry.error = Some("Downloads skipped by --skip-downloads")
              /\ me.entry.image = Some(StatedPath(me.site))
        /\ \A a \in Attempts : a.wrote = None
        /\ DOMAIN images = {}

(* C3 amended: in skip-downloads mode every overlay whose image reference  *)
(* is an http(s) URL gets an entry with download_ok = false, http_status = *)
(* null, the skip message as error and the computed path as image, and     *)
(* resolving it downloads nothing and writes no file; an overlay with an   *)
(* absent or local reference is resolved as without the flag: its entry    *)
(* has download_ok = true exactly when the sibling PNG was copied, the     *)
(* "Local file not found" error otherwise, and the computed path as image. *)
C3_SkipCoversUrlsOnly ==
    skip_downloads =>
        /\ \A me \in ManifestEntries :
              IF IsUrl(me.entry.source_url)
              THEN /\ me.entry.download_ok = FALSE
                   /\ me.entry.http_status = None
                   /\ me.entry.error = Some("Downloads skipped by --skip-downloads")
                   /\ me.entry.image = Some(StatedPath(me.site))
              ELSE /\ me.entry.image = Some(StatedPath(me.site))
                   /\ me.entry.http_status = None
                   /\ me.entry.error =
                         IF me.entry.download_ok THEN None
                         ELSE Some("Local file not found")
        /\ \A a \in Attempts :
              IF IsUrl(a.href)
              THEN a.branch = "skipped" /\ a.wrote = None /\ ~a.raised
              ELSE a.raised \/ (Get(a.entry).download_ok <=> IsSome(a.wrote))

C3_Witness ==
    /\ skip_downloads
    /\ pc = "done"
    /\ \E j \in DOMAIN manifests :
          LET o == manifests[j].manifest.overlays
          IN  /\ Len(o) = 2
              /\ IsUrl(o[1].source_url) /\ o[1].error = Some(SkipMsg)
              /\ o[1].image = Some(StatedPath(manifests[j].manifest.site))
              /\ ~IsUrl(o[2].source_url) /\ o[2].download_ok
    /\ DOMAIN images # {}

(* C4 as stated: a GET answered 404 gives the entry download_ok = false,   *)
(* http_status = 404, a non-null error and image = null, writes no file,   *)
(* and the document's manifest is still written and listed in index.json.  *)
C4_AsStated ==
    Finished =>
        \A a \in Attempts :
            (a.branch = "remote" /\ IsSome(a.entry)
                /\ Get(a.entry).http_status = Some(404)) =>
                /\ Get(a.entry).download_ok = FALSE
                /\ IsSome(Get(a.entry).error)
                /\ Get(a.entry).image = None
                /\ a.wrote = None
                /\ HasManifest(kml_files[a.k])
                /\ IsSome(index_json)
                /\ \E j \in DOMAIN Get(index_json) :
                      Get(index_json)[j] = << "potential", "/" >> \o Get(a.entry).name
                                              \o << "/", "manifest.json" >>

(* C5 as stated: every overlay entry of every manifest records the path    *)
(* /<base>/<site-name>/overlays/<filename>, whatever the resolution path   *)
(* and outcome.                                                            *)
C5_AsStated ==
    \A me \in ManifestEntries : me.entry.image = Some(StatedPath(me.site))

RemoteFailure(e) ==
    /\ IsUrl(e.source_url)
    /\ ~e.download_ok
    /\ e.error # Some("Downloads skipped by --skip-downloads")

(* C5 amended: every overlay entry of every manifest records the path      *)
(* /<base>/<site-name>/overlays/<filename> (local copy, local not found,   *)
(* remote success, skipped), except the entry of a failed download, whose  *)
(* image is null.                                                          *)
C5_PathUnlessDownloadFailed ==
    \A me \in ManifestEntries :
        me.entry.image =
            IF RemoteFailure(me.entry) THEN None ELSE Some(StatedPath(me.site))

C5_Witness ==
    /\ pc = "done"
    /\ \E j \in DOMAIN manifests :
          LET o == manifests[j].manifest.overlays
          IN  /\ Len(o) = 2
              /\ RemoteFailure(o[1]) /\ o[1].http_status = Some(500) /\ o[1].image = None
              /\ ~o[2].download_ok /\ o[2].error = Some(NotFoundMsg)
              /\ o[2].image = Some(StatedPath(manifests[j].manifest.site))

(* C6 as stated: a download that returns a failure leaves no file of its   *)
(* own at the destination; an attempt's image file exists only when its    *)
(* outcome is download_ok = true.                                          *)
C6_AsStated ==
    \A a \in Attempts :
        (IsSome(a.entry) /\ ~Get(a.entry).download_ok) => a.wrote = None

====
